---- MODULE Spec2Model ----
(***************************************************************************)
(* Model of nostril/nonsense_detector.py: the n-gram weight table builder  *)
(* (ngram_values), the TF-IDF scorer (tfidf_score_function) and the        *)
(* detector closure (generate_nonsense_detector).                          *)
(*                                                                         *)
(* Strings are TLA+ strings.  Floating-point values are modelled in exact  *)
(* fixed point: an idf value is an integer number of thousandths (1000     *)
(* stands for 1.0), a score is an exact fraction [num, den] over such      *)
(* values.  math.pow is modelled for natural exponents.                    *)
(***************************************************************************)
EXTENDS Integers, Sequences, FiniteSets, TLC

\* ------------------------------------------------------------------ bounds
AlphabetSize == 2      \* how many letters of string.ascii_lowercase are used
MaxCorpus == 3         \* longest training corpus (number of strings)
MaxN == 2              \* largest window length tried
MaxRepeat == 3         \* most repetitions of a word in a scored string
MaxBatch == 2          \* longest input list of a test harness run

\* ------------------------------------------------------- characters, strings
ascii_lowercase == "abcdefghijklmnopqrstuvwxyz"

AsciiLetters == {SubSeq(ascii_lowercase, i, i) : i \in 1..26}

\* the letters all_possible_ngrams iterates over (a prefix of a-z)
all_letters == {SubSeq(ascii_lowercase, i, i) : i \in 1..AlphabetSize}

\* string.punctuation + string.digits + ' ' (the grave accent, which a TLA+
\* string cannot hold, is left out; no input of the model contains it)
DelChars ==
  {"!", "\"", "#", "$", "%", "&", "'", "(", ")", "*", "+", ",", "-", ".", "/",
   ":", ";", "<", "=", ">", "?", "@", "[", "\\", "]", "^", "_", "{", "|",
   "}", "~", "0", "1", "2", "3", "4", "5", "6", "7", "8", "9", " "}

Max(a, b) == IF a >= b THEN a ELSE b
Min(a, b) == IF a <= b THEN a ELSE b

\* str.lower() on one character (the upper-case letters the inputs use)
LowerChar(c) ==
  CASE c = "A" -> "a"
    [] c = "B" -> "b"
    [] c = "C" -> "c"
    [] OTHER -> c

RECURSIVE lower(_)
lower(s) ==
  IF s = "" THEN "" ELSE LowerChar(SubSeq(s, 1, 1)) \o lower(Tail(s))

\* str.translate(_delchars): delete every character of DelChars
RECURSIVE translate(_)
translate(s) ==
  IF s = "" THEN ""
  ELSE IF SubSeq(s, 1, 1) \in DelChars THEN translate(Tail(s))
       ELSE SubSeq(s, 1, 1) \o translate(Tail(s))

\* Python slice s[start:stop] for start >= 0 (stop may be negative)
PySlice(s, start, stop) ==
  LET len == Len(s)
      st  == Min(start, len)
      sp  == IF stop < 0 THEN Max(stop + len, 0) ELSE Min(stop, len)
  IN  IF sp <= st THEN "" ELSE SubSeq(s, st + 1, sp)

ngrams_stops_one_early(string, n) ==
  [i \in 1..(Len(string) - n) |-> PySlice(string, i - 1, i - 1 + n)]

\* ngrams(string, n): [string[i:i+n] for i in range(len(string) - n + 1)]
ngrams(string, n) ==
  [i \in 1..(Len(string) - n + 1) |-> PySlice(string, i - 1, i - 1 + n)]

\* all_possible_ngrams(n) for n >= 0, as the set of its items.  For n < 0
\* the recursion of the source never reaches a base case (RecursionError).
\* variant: the loops skip the first letter of all_letters
RECURSIVE all_possible_ngrams_skip_first(_)
all_possible_ngrams_skip_first(n) ==
  IF n = 0 THEN {}
  ELSE IF n = 1 THEN all_letters \ {"a"}
  ELSE {letter \o ngram : letter \in all_letters \ {"a"},
                          ngram \in all_possible_ngrams_skip_first(n - 1)}

RECURSIVE all_possible_ngrams(_)
all_possible_ngrams(n) ==
  IF n = 0 THEN {}
  ELSE IF n = 1 THEN all_letters
  ELSE {letter \o ngram : letter \in all_letters,
                          ngram \in all_possible_ngrams(n - 1)}

\* variant: the base case n == 0 is missing
all_possible_ngrams_diverges_at_zero(n) == n <= 0

all_possible_ngrams_diverges(n) == n < 0

\* ------------------------------------------------------------- fixed point
\* log2 of a positive integer in thousandths
RECURSIVE Log2Milli(_)
Log2Milli(k) ==
  IF k = 1 THEN 0
  ELSE IF k % 2 = 0 THEN 1000 + Log2Milli(k \div 2)
  ELSE CASE k = 3 -> 1585
         [] k = 5 -> 2322
         [] k = 7 -> 2807
         [] k = 9 -> 3170
         [] k = 11 -> 3459
         [] k = 13 -> 3700
         [] k = 15 -> 3907
         [] k = 17 -> 4087
         [] k = 19 -> 4248
         [] k = 21 -> 4392
         [] k = 23 -> 4524
         [] k = 25 -> 4644

\* variant: rounds down
ceil_rounds_down(x) == (x \div 1000) * 1000

\* math.ceil of a value in thousandths, again in thousandths
ceil(x) == (0 - ((0 - x) \div 1000)) * 1000

ngram_idf_value_of_max_frequency(total_num_strings, string_frequency, total_frequency, max_frequency) ==
  Log2Milli(max_frequency) - Log2Milli(1 + string_frequency)

\* ngram_idf_value: log(total_num_strings / (1 + string_frequency), 2)
ngram_idf_value(total_num_strings, string_frequency, total_frequency, max_frequency) ==
  Log2Milli(total_num_strings) - Log2Milli(1 + string_frequency)

SetMax(S) == CHOOSE x \in S : \A y \in S : x >= y

\* variant: min instead of max
highest_idf_takes_min(ngram_freq) ==
  LET S == {ngram_freq[g].idf : g \in DOMAIN ngram_freq}
  IN  CHOOSE x \in S : \A y \in S : x <= y

highest_idf(ngram_freq) ==
  SetMax({ngram_freq[g].idf : g \in DOMAIN ngram_freq})

highest_total_frequency(ngram_freq) ==
  SetMax({ngram_freq[g].total_frequency : g \in DOMAIN ngram_freq})

NGramData(sf, tf, idf) ==
  [string_frequency |-> sf, total_frequency |-> tf, idf |-> idf]

NoTable == <<>>

\* ngram_values(string_list, n, readjust_zero_scores): the returned table, or
\* the exception that ends the call
ngram_values(string_list, n, readjust_zero_scores) ==
  LET strs == [i \in DOMAIN string_list |-> lower(string_list[i])]
      num_strings == Len(string_list)
      grams(i) == ngrams(strs[i], n)
      places == UNION {{<<i, j>> : j \in DOMAIN grams(i)} : i \in DOMAIN strs}
      seen == {grams(p[1])[p[2]] : p \in places}
      counts == [g \in seen |->
                   Cardinality({p \in places : grams(p[1])[p[2]] = g})]
      occurrences == [g \in seen |->
                   {strs[p[1]] : p \in {q \in places : grams(q[1])[q[2]] = g}}]
      initial == [g \in all_possible_ngrams(n) |-> NGramData(0, 0, 0)]
      max_frequency == SetMax({counts[g] : g \in seen})
      scored == [g \in (DOMAIN initial) \cup seen |->
                   IF g \in seen
                   THEN LET string_freq == Cardinality(occurrences[g])
                            total_freq == counts[g]
                        IN  NGramData(string_freq, total_freq,
                                      ngram_idf_value(num_strings, string_freq,
                                                      total_freq, max_frequency))
                   ELSE initial[g]]
      max_idf == ceil(highest_idf(scored))
      readjusted == [g \in DOMAIN scored |->
                       IF scored[g].idf = 0
                       THEN NGramData(0, 0, max_idf)
                       ELSE scored[g]]
  IN  IF all_possible_ngrams_diverges(n)
      THEN [status |-> "RecursionError", table |-> NoTable]
      ELSE IF seen = {}          \* max() of an empty list
      THEN [status |-> "ValueError", table |-> NoTable]
      ELSE [status |-> "ok",
            table |-> IF readjust_zero_scores THEN readjusted ELSE scored]

\* ------------------------------------------------------------------ scorer
\* math.pow for a natural exponent (pow(0, 0) = 1)
RECURSIVE Pow(_, _)
Pow(b, e) == IF e = 0 THEN 1 ELSE b * Pow(b, e - 1)

RECURSIVE SumTo(_, _)
SumTo(f, k) == IF k = 0 THEN 0 ELSE f[k] + SumTo(f, k - 1)

length_penalty_from_threshold(num_ngrams, len_threshold, len_penalty_exp) ==
  Pow(Max(0, num_ngrams - len_threshold + 1), len_penalty_exp)

\* pow(max(0, num_ngrams - len_threshold), len_penalty_exp)
length_penalty(num_ngrams, len_threshold, len_penalty_exp) ==
  Pow(Max(0, num_ngrams - len_threshold), len_penalty_exp)

ngram_term_ignores_count(idf, c, repetition_penalty_exp, max_freq) ==
  idf * (max_freq + 1)

ngram_term_frequency_subtracted(idf, c, repetition_penalty_exp, max_freq) ==
  idf * Pow(c, repetition_penalty_exp) * (max_freq - c)

\* ngram_freq[n].idf * pow(c, repetition_penalty_exp) * (0.5 + 0.5*c/max_freq),
\* times 2*max_freq
ngram_term(idf, c, repetition_penalty_exp, max_freq) ==
  idf * Pow(c, repetition_penalty_exp) * (max_freq + c)

score_divisor_is_count(num_ngrams) == num_ngrams

\* the divisor of return score/(1 + num_ngrams)
score_divisor(num_ngrams) == 1 + num_ngrams

ScoreError(kind, num_ngrams) ==
  [kind |-> kind, num |-> 0, den |-> 1, num_ngrams |-> num_ngrams,
   length_penalty |-> 0]

\* score_function of tfidf_score_function(ngram_freq, len_threshold,
\* len_penalty_exp, repetition_penalty_exp), applied to string.  The score is
\* the exact fraction num/den; idf values enter in thousandths, so the sum and
\* the length penalty are brought to the common denominator 2*max_freq*1000.
score_function(ngram_freq, len_threshold, len_penalty_exp, repetition_penalty_exp, string) ==
  LET max_freq == highest_total_frequency(ngram_freq)
      ngram_length == Len(CHOOSE k \in DOMAIN ngram_freq : TRUE)
      string_ngrams == ngrams(string, ngram_length)
      num_ngrams == Len(string_ngrams)
      ngram_counts(g) ==
        Cardinality({j \in DOMAIN string_ngrams : string_ngrams[j] = g})
      first(j) == \A k \in 1..(j - 1) : string_ngrams[k] # string_ngrams[j]
      penalty == length_penalty(num_ngrams, len_threshold, len_penalty_exp)
      term == [j \in DOMAIN string_ngrams |->
                 IF first(j)
                 THEN ngram_term(ngram_freq[string_ngrams[j]].idf,
                                 ngram_counts(string_ngrams[j]),
                                 repetition_penalty_exp, max_freq)
                 ELSE 0]
      \* with no n-gram there is no summand to bring to a common denominator
      scale == IF num_ngrams = 0 THEN 1 ELSE 2 * max_freq * 1000
  IN  IF num_ngrams > 0 /\ string_ngrams[1] \notin DOMAIN ngram_freq
      THEN ScoreError("KeyError", num_ngrams)
      ELSE IF num_ngrams > 0 /\ max_freq = 0
      THEN ScoreError("ZeroDivisionError", num_ngrams)
      ELSE IF \E j \in DOMAIN string_ngrams :
                 string_ngrams[j] \notin DOMAIN ngram_freq
      THEN ScoreError("KeyError", num_ngrams)
      ELSE IF score_divisor(num_ngrams) = 0
      THEN ScoreError("ZeroDivisionError", num_ngrams)
      ELSE [kind |-> "score",
            num |-> SumTo(term, num_ngrams) + penalty * scale,
            den |-> scale * score_divisor(num_ngrams),
            num_ngrams |-> num_ngrams, length_penalty |-> penalty]

dict_missing_stores_default(ngram_freq, key) ==
  [g \in DOMAIN ngram_freq \cup {key} |->
     IF g \in DOMAIN ngram_freq THEN ngram_freq[g] ELSE NGramData(0, 0, 0)]

\* ngram_freq[key] for a key the table lacks: the table is a defaultdict made
\* by defaultdict.fromkeys, whose default_factory is None, so the lookup
\* raises KeyError and stores nothing
dict_missing(ngram_freq, key) == ngram_freq

\* the table after score_function(string): the lookups run over the distinct
\* n-grams in order of first appearance, up to the first exception
table_after_score(ngram_freq, string) ==
  LET max_freq == highest_total_frequency(ngram_freq)
      ngram_length == Len(CHOOSE k \in DOMAIN ngram_freq : TRUE)
      string_ngrams == ngrams(string, ngram_length)
      missing == {j \in DOMAIN string_ngrams :
                    string_ngrams[j] \notin DOMAIN ngram_freq}
      first_missing == CHOOSE j \in missing : \A k \in missing : j <= k
  IN  IF missing = {} THEN ngram_freq
      ELSE IF first_missing > 1 /\ max_freq = 0 THEN ngram_freq
      ELSE dict_missing(ngram_freq, string_ngrams[first_missing])

\* a > b for fractions with positive denominators
Greater(a, b) == a.num * b.den > b.num * a.den

\* ---------------------------------------------------------------- detector
default_min_length == 6
default_len_threshold == 25

\* string.lower().translate(_delchars)
Normalized(string) == translate(lower(string))

string_score(ngram_freq, det, string) ==
  score_function(ngram_freq, det.len_threshold, det.len_penalty_exp,
                 det.rep_penalty_exp, string)

Raise(kind, string, scored, score) ==
  [kind |-> kind, value |-> FALSE, string |-> string, scored |-> scored,
   score |-> score, printed |-> FALSE]

NoScore == [num |-> 0, den |-> 1]

\* variant: score >= min_score
nonsense_detector_traced_not_strict(ngram_freq, det, raw, show) ==
  LET string == Normalized(raw)
      score == string_score(ngram_freq, det, string)
      result == ~Greater(det.min_score, score)
  IN  IF Len(string) < det.min_length
      THEN Raise("TooShort", string, FALSE, NoScore)
      ELSE IF score.kind # "score"
      THEN Raise(score.kind, string, TRUE, NoScore)
      ELSE [kind |-> "return", value |-> result, string |-> string,
            scored |-> TRUE, score |-> [num |-> score.num, den |-> score.den],
            printed |-> show]

\* variant: "return result" sits inside "if show:", so the call returns None
\* when show is false
nonsense_detector_traced_return_in_if(ngram_freq, det, raw, show) ==
  LET string == Normalized(raw)
      score == string_score(ngram_freq, det, string)
      result == Greater(score, det.min_score)
  IN  IF Len(string) < det.min_length
      THEN Raise("TooShort", string, FALSE, NoScore)
      ELSE IF score.kind # "score"
      THEN Raise(score.kind, string, TRUE, NoScore)
      ELSE [kind |-> IF show THEN "return" ELSE "None",
            value |-> show /\ result, string |-> string,
            scored |-> TRUE, score |-> [num |-> score.num, den |-> score.den],
            printed |-> show]

\* nonsense_detector as defined under "if trace:"; "TooShort" stands for
\* ValueError('Too short to test')
nonsense_detector_traced(ngram_freq, det, raw, show) ==
  LET string == Normalized(raw)
      score == string_score(ngram_freq, det, string)
      result == Greater(score, det.min_score)
  IN  IF Len(string) < det.min_length
      THEN Raise("TooShort", string, FALSE, NoScore)
      ELSE IF score.kind # "score"
      THEN Raise(score.kind, string, TRUE, NoScore)
      ELSE [kind |-> "return", value |-> result, string |-> string,
            scored |-> TRUE, score |-> [num |-> score.num, den |-> score.den],
            printed |-> show]

\* variant: len(string) <= min_length
nonsense_detector_plain_floor_inclusive(ngram_freq, det, raw, show) ==
  LET string == Normalized(raw)
      score == string_score(ngram_freq, det, string)
  IN  IF Len(string) <= det.min_length
      THEN Raise("TooShort", string, FALSE, NoScore)
      ELSE IF score.kind # "score"
      THEN Raise(score.kind, string, TRUE, NoScore)
      ELSE [kind |-> "return", value |-> Greater(score, det.min_score),
            string |-> string, scored |-> TRUE,
            score |-> [num |-> score.num, den |-> score.den],
            printed |-> FALSE]

\* nonsense_detector as defined under "else:"
nonsense_detector_plain(ngram_freq, det, raw, show) ==
  LET string == Normalized(raw)
      score == string_score(ngram_freq, det, string)
  IN  IF Len(string) < det.min_length
      THEN Raise("TooShort", string, FALSE, NoScore)
      ELSE IF score.kind # "score"
      THEN Raise(score.kind, string, TRUE, NoScore)
      ELSE [kind |-> "return", value |-> Greater(score, det.min_score),
            string |-> string, scored |-> TRUE,
            score |-> [num |-> score.num, den |-> score.den],
            printed |-> FALSE]

\* the table after a call of either closure
table_after_detector(ngram_freq, det, raw) ==
  IF Len(Normalized(raw)) < det.min_length
  THEN ngram_freq
  ELSE table_after_score(ngram_freq, Normalized(raw))

\* ------------------------------------------------------------ pickle files
\* The keys of a dictionary in the order the pickle stream lists them.
RECURSIVE KeySeq(_)
KeySeq(keys) ==
  IF keys = {} THEN <<>>
  ELSE LET k == CHOOSE x \in keys : TRUE IN <<k>> \o KeySeq(keys \ {k})

pickle_load_fields_swapped(stream) ==
  [k \in {stream.items[i].key : i \in DOMAIN stream.items} |->
     LET item == stream.items[CHOOSE i \in DOMAIN stream.items :
                                stream.items[i].key = k]
     IN  NGramData(item.args[2], item.args[1], item.args[3])]

\* pickle.dump(data_set, pickle_file): the stream names the dictionary class
\* and its default_factory and lists the items; a named tuple is written as
\* the name of its class and the tuple of its field values
pickle_dump(data_set) ==
  LET keys == KeySeq(DOMAIN data_set)
  IN  [class |-> "defaultdict", default_factory |-> "None",
       items |-> [i \in DOMAIN keys |->
                    [key |-> keys[i], class |-> "NGramData",
                     args |-> <<data_set[keys[i]].string_frequency,
                                data_set[keys[i]].total_frequency,
                                data_set[keys[i]].idf>>]]]

\* pickle.load(pickle_file): the dictionary is rebuilt item by item, each
\* value by calling the class named with the field values in their order
pickle_load(stream) ==
  [k \in {stream.items[i].key : i \in DOMAIN stream.items} |->
     LET item == stream.items[CHOOSE i \in DOMAIN stream.items :
                                stream.items[i].key = k]
     IN  NGramData(item.args[1], item.args[2], item.args[3])]

\* gzip.open(file, 'wb') and gzip.open(file, 'rb'): the file holds the
\* compressed stream
gzip_write(stream) == [magic |-> "gzip", payload |-> stream]
gzip_read(contents) == contents.payload

\* ----------------------------------------------------------- test harnesses
Whitespace == {" ", "\t", "\n"}

RECURSIVE lstrip(_)
lstrip(s) ==
  IF s # "" /\ SubSeq(s, 1, 1) \in Whitespace THEN lstrip(Tail(s)) ELSE s

RECURSIVE rstrip(_)
rstrip(s) ==
  IF s # "" /\ SubSeq(s, Len(s), Len(s)) \in Whitespace
  THEN rstrip(PySlice(s, 0, Len(s) - 1))
  ELSE s

\* str.strip()
strip(s) == rstrip(lstrip(s))

\* str.split(sep) for a separator of one character
RECURSIVE split(_, _)
split(s, sep) ==
  LET at == {i \in 1..Len(s) : SubSeq(s, i, i) = sep}
      i  == CHOOSE x \in at : \A y \in at : x <= y
  IN  IF at = {} THEN <<s>>
      ELSE <<PySlice(s, 0, i - 1)>> \o split(PySlice(s, i, Len(s)), sep)

\* nonsense_tester(string, trace_scores): the detector closure handed to a
\* harness
nonsense_tester(ngram_freq, det, string, show) ==
  IF det.trace
  THEN nonsense_detector_traced(ngram_freq, det, string, show)
  ELSE nonsense_detector_plain(ngram_freq, det, string, show)

NoResult ==
  [status |-> "none", exception |-> "none", failures |-> 0, successes |-> 0,
   false_positives |-> <<>>, false_negatives |-> <<>>, count |-> 0,
   skipped |-> 0, tested |-> <<>>]

\* the loop of test_strings.run_tests from item i on; ctx holds the table, the
\* detector, min_length, sense and trace_scores; acc.tested lists the strings
\* handed to nonsense_tester
RECURSIVE test_strings_loop(_, _, _, _)

\* the rest of an iteration, out being what nonsense_tester returned or raised
test_strings_tested(ctx, id_list, i, acc, string, out) ==
  LET is_junk == IF out.value THEN 1 ELSE 0
      called == [acc EXCEPT !.count = @ + 1, !.tested = Append(@, string)]
  IN  IF out.kind # "return"
      THEN [called EXCEPT !.status = "raised", !.exception = out.kind]
      ELSE IF ctx.sense = "valid"
      THEN test_strings_loop(ctx, id_list, i + 1,
                             [called EXCEPT !.failures = @ + is_junk,
                                            !.successes = @ + (1 - is_junk)])
      ELSE test_strings_loop(ctx, id_list, i + 1,
                             [called EXCEPT !.failures = @ + (1 - is_junk),
                                            !.successes = @ + is_junk])

\* one iteration, string being the item lowered and stripped of non-letters
test_strings_item(ctx, id_list, i, acc, string) ==
  IF Len(string) < ctx.min_length
  THEN test_strings_loop(ctx, id_list, i + 1, [acc EXCEPT !.skipped = @ + 1])
  ELSE CHOOSE after \in
         {test_strings_tested(ctx, id_list, i, acc, string, out) :
            out \in {nonsense_tester(ctx.ngram_freq, ctx.det, string,
                                     ctx.trace_scores)}} : TRUE

test_strings_loop(ctx, id_list, i, acc) ==
  IF i > Len(id_list) THEN acc
  ELSE CHOOSE after \in
         {test_strings_item(ctx, id_list, i, acc, string) :
            string \in {translate(lower(id_list[i]))}} : TRUE

\* test_strings(input, nonsense_tester, min_length, sense, trace_scores) for a
\* list input and save_to=None; print_stats runs when trace_scores is set
test_strings(ctx, id_list) ==
  LET acc == test_strings_loop(ctx, id_list, 1, NoResult)
  IN  IF acc.status = "raised" THEN acc
      ELSE IF ctx.trace_scores /\ acc.failures + acc.successes = 0
      THEN [acc EXCEPT !.status = "raised", !.exception = "ZeroDivisionError"]
      ELSE [acc EXCEPT !.status = "returned"]

\* the loop of test_labeled.run_tests from line i on
RECURSIVE test_labeled_loop(_, _, _, _)

\* the rest of an iteration, out being what nonsense_tester returned or raised
test_labeled_tested(ctx, lines, i, acc, is_real, string, out) ==
  LET called == [acc EXCEPT !.count = @ + 1, !.tested = Append(@, string)]
  IN  IF out.kind # "return"
      THEN [called EXCEPT !.status = "raised", !.exception = out.kind]
      ELSE IF is_real /\ out.value
      THEN test_labeled_loop(ctx, lines, i + 1,
                             [called EXCEPT !.false_positives = Append(@, string)])
      ELSE IF ~is_real /\ ~out.value
      THEN test_labeled_loop(ctx, lines, i + 1,
                             [called EXCEPT !.false_negatives = Append(@, string)])
      ELSE test_labeled_loop(ctx, lines, i + 1, called)

\* one iteration, pieces being line.strip().split(',')
test_labeled_item(ctx, lines, i, acc, pieces) ==
  IF Len(pieces) < 2
  THEN [acc EXCEPT !.status = "raised", !.exception = "IndexError"]
  ELSE IF Len(pieces[2]) < ctx.min_length
  THEN test_labeled_loop(ctx, lines, i + 1, [acc EXCEPT !.skipped = @ + 1])
  ELSE CHOOSE after \in
         {test_labeled_tested(ctx, lines, i, acc, pieces[1] = "y", pieces[2], out) :
            out \in {nonsense_tester(ctx.ngram_freq, ctx.det, pieces[2],
                                     ctx.trace_scores)}} : TRUE

test_labeled_loop(ctx, lines, i, acc) ==
  IF i > Len(lines) THEN acc
  ELSE CHOOSE after \in
         {test_labeled_item(ctx, lines, i, acc, pieces) :
            pieces \in {split(strip(lines[i]), ",")}} : TRUE

\* test_labeled(input_file, nonsense_tester, min_length, trace_scores), lines
\* being the lines of the input file
test_labeled(ctx, lines) ==
  LET acc == test_labeled_loop(ctx, lines, 1, NoResult)
  IN  IF acc.status = "raised" THEN acc
      ELSE [acc EXCEPT !.status = "returned"]

\* ------------------------------------------------------------------ inputs
CorpusStrings == {"ab", "ABab", "a1"}

Corpora == UNION {[1..k -> CorpusStrings] : k \in 0..MaxCorpus}

RawInputs == {"a", "ab", "ababa", "ababab", "abababa", "bbbbbb",
              "AB ab_1ab", "ab\tabab"}

\* window lengths handed to ngram_values: a negative one, 0 and the valid ones
WindowLengths == -1..MaxN

MinLengths == {2, default_min_length}
MinScores == {[num |-> 0, den |-> 1], [num |-> 1, den |-> 2]}
\* (len_threshold, len_penalty_exp, repetition_penalty_exp) combinations
ScoreParams == {<<default_len_threshold, 1, 1>>, <<3, 2, 2>>}

\* strings handed to a score function called directly
ScoreInputs == {"", "a", "ab", "ba", "abab", "bbb", "ababab"}

\* (len_threshold, len_penalty_exp, repetition_penalty_exp) of a score function
\* made directly by tfidf_score_function
ScorerParams == {<<default_len_threshold, 1, 1>>, <<3, 2, 2>>, <<3, 0, 1>>,
                 <<-1, 1, 1>>}

\* strings of a harness input: six letters, seven characters of which four
\* are letters, one letter
HarnessStrings == {"ababab", "ab_1_ab", "a"}

\* lists handed to test_strings
HarnessLists == UNION {[1..k -> HarnessStrings] : k \in 0..MaxBatch}

\* lines of a file read by test_labeled
LabeledLines == {label \o "," \o s \o "\n" : label \in {"y", "n"}, s \in HarnessStrings}

LabeledFiles == UNION {[1..k -> LabeledLines] : k \in 0..MaxBatch}

\* corpora of the tables the harnesses run on
HarnessCorpora == {<<"ab">>, <<"ab", "ABab", "a1">>}

\* ------------------------------------------------------------------- state
VARIABLES
  string_list,   \* corpus handed to ngram_values
  n,             \* window length handed to ngram_values
  readjust,      \* readjust_zero_scores handed to ngram_values
  built,         \* what ngram_values produced: [status, table]
  detector,      \* parameters captured by generate_nonsense_detector
  call,          \* the activation of the detector closure that has run to
                 \* its return or raise: arguments, locals and outcome
  scoring,       \* a score function made directly by tfidf_score_function
                 \* and its call: parameters, argument and outcome
  pickle_file,   \* the contents of the pickle file, once written
  loaded,        \* what dataset_from_pickle returned
  run            \* the harness call made: its arguments and its result

vars == <<string_list, n, readjust, built, detector, call, scoring,
          pickle_file, loaded, run>>

NoDetector ==
  [made |-> FALSE, min_length |-> 0, min_score |-> NoScore, trace |-> FALSE,
   len_threshold |-> 0, len_penalty_exp |-> 0, rep_penalty_exp |-> 0]

NoCall ==
  [made |-> FALSE, raw |-> "", show |-> FALSE,
   out |-> Raise("none", "", FALSE, NoScore)]

NoScoring ==
  [made |-> FALSE, len_threshold |-> 0, len_penalty_exp |-> 0,
   rep_penalty_exp |-> 0, string |-> "", out |-> ScoreError("none", 0)]

NoFile == [magic |-> "none", payload |-> <<>>]

NotLoaded == [made |-> FALSE, data_set |-> <<>>]

\* the table built has not been handed to a detector or a scorer, nor saved
TableUnused == ~detector.made /\ ~scoring.made /\ pickle_file = NoFile

NoRun ==
  [harness |-> "none", input |-> <<>>, min_length |-> 0, sense |-> "valid",
   trace_scores |-> FALSE, result |-> NoResult]

Init ==
  /\ string_list = <<>>
  /\ n = 0
  /\ readjust = TRUE
  /\ built = [status |-> "none", table |-> NoTable]
  /\ detector = NoDetector
  /\ call = NoCall
  /\ scoring = NoScoring
  /\ pickle_file = NoFile
  /\ loaded = NotLoaded
  /\ run = NoRun

\* ngram_values(string_list, n, readjust_zero_scores)
NgramValues ==
  /\ built.status = "none"
  /\ \E c \in Corpora, k \in WindowLengths, r \in BOOLEAN :
       /\ string_list' = c
       /\ n' = k
       /\ readjust' = r
       /\ built' = ngram_values(c, k, r)
  /\ UNCHANGED <<detector, call, scoring, pickle_file, loaded, run>>

\* generate_nonsense_detector(ngram_freq = the table built, ...)
GenerateNonsenseDetector ==
  /\ built.status = "ok"
  /\ TableUnused
  /\ \E ml \in MinLengths, ms \in MinScores, tr \in BOOLEAN,
        sp \in ScoreParams :
       detector' = [made |-> TRUE, min_length |-> ml, min_score |-> ms,
                    trace |-> tr, len_threshold |-> sp[1],
                    len_penalty_exp |-> sp[2], rep_penalty_exp |-> sp[3]]
  /\ UNCHANGED <<string_list, n, readjust, built, call, scoring, pickle_file, loaded, run>>

\* a call of the closure returned for trace = True
NonsenseDetectorTraced ==
  /\ detector.made
  /\ detector.trace
  /\ ~call.made
  /\ \E raw \in RawInputs, show \in BOOLEAN :
       /\ call' = [made |-> TRUE, raw |-> raw, show |-> show,
                out |-> nonsense_detector_traced(built.table, detector, raw, show)]
       /\ built' = [built EXCEPT
                      !.table = table_after_detector(built.table, detector, raw)]
  /\ UNCHANGED <<string_list, n, readjust, detector, scoring, pickle_file, loaded, run>>

\* a call of the closure returned for trace = False
NonsenseDetectorPlain ==
  /\ detector.made
  /\ ~detector.trace
  /\ ~call.made
  /\ \E raw \in RawInputs, show \in BOOLEAN :
       /\ call' = [made |-> TRUE, raw |-> raw, show |-> show,
                out |-> nonsense_detector_plain(built.table, detector, raw, show)]
       /\ built' = [built EXCEPT
                      !.table = table_after_detector(built.table, detector, raw)]
  /\ UNCHANGED <<string_list, n, readjust, detector, scoring, pickle_file, loaded, run>>

\* the verdict or the exception reaches the caller and the activation's locals
\* are gone; the closure can be called again
NonsenseDetectorReturns ==
  /\ call.made
  /\ call' = NoCall
  /\ UNCHANGED <<string_list, n, readjust, built, detector, scoring, pickle_file, loaded, run>>

\* score_string = tfidf_score_function(table, ...); score_string(string)
ScoreString ==
  /\ built.status = "ok"
  /\ TableUnused
  /\ \E sp \in ScorerParams, string \in ScoreInputs :
       /\ scoring' = [made |-> TRUE, len_threshold |-> sp[1],
                      len_penalty_exp |-> sp[2], rep_penalty_exp |-> sp[3],
                      string |-> string,
                      out |-> score_function(built.table, sp[1], sp[2], sp[3],
                                             string)]
       /\ built' = [built EXCEPT !.table = table_after_score(built.table, string)]
  /\ UNCHANGED <<string_list, n, readjust, detector, call, pickle_file, loaded, run>>

\* the score or the exception reaches the caller; the score function is dropped
ScoreStringReturns ==
  /\ scoring.made
  /\ scoring' = NoScoring
  /\ UNCHANGED <<string_list, n, readjust, built, detector, call, pickle_file, loaded, run>>

\* dataset_to_pickle(file, table)
DatasetToPickle ==
  /\ built.status = "ok"
  /\ TableUnused
  /\ pickle_file' = gzip_write(pickle_dump(built.table))
  /\ UNCHANGED <<string_list, n, readjust, built, detector, call, scoring, loaded, run>>

\* dataset_from_pickle(file)
DatasetFromPickle ==
  /\ pickle_file # NoFile
  /\ ~loaded.made
  /\ loaded' = [made |-> TRUE, data_set |-> pickle_load(gzip_read(pickle_file))]
  /\ UNCHANGED <<string_list, n, readjust, built, detector, call, scoring, pickle_file, run>>

Next ==
  \/ NgramValues
  \/ GenerateNonsenseDetector
  \/ NonsenseDetectorTraced
  \/ NonsenseDetectorPlain
  \/ NonsenseDetectorReturns
  \/ ScoreString
  \/ ScoreStringReturns
  \/ DatasetToPickle
  \/ DatasetFromPickle

Spec == Init /\ [][Next]_vars

\* ------------------------------------------------------- harness runs
\* A table has been built and a detector generated from it; the harnesses are
\* then run with the min_length of the detector.
InitHarness ==
  /\ string_list \in HarnessCorpora
  /\ n \in 1..MaxN
  /\ readjust = TRUE
  /\ built = ngram_values(string_list, n, readjust)
  /\ built.status = "ok"
  /\ \E ml \in MinLengths, ms \in MinScores, tr \in BOOLEAN,
        sp \in ScoreParams :
       detector = [made |-> TRUE, min_length |-> ml, min_score |-> ms,
                   trace |-> tr, len_threshold |-> sp[1],
                   len_penalty_exp |-> sp[2], rep_penalty_exp |-> sp[3]]
  /\ call = NoCall
  /\ scoring = NoScoring
  /\ pickle_file = NoFile
  /\ loaded = NotLoaded
  /\ run = NoRun

HarnessContext(trace_scores, sense) ==
  [ngram_freq |-> built.table, det |-> detector,
   min_length |-> detector.min_length, sense |-> sense,
   trace_scores |-> trace_scores]

\* test_strings(id_list, detector, min_length, sense, trace_scores)
TestStrings ==
  /\ run.harness = "none"
  /\ \E id_list \in HarnessLists, sense \in {"valid", "invalid"},
        trace_scores \in BOOLEAN :
       run' = [harness |-> "test_strings", input |-> id_list,
               min_length |-> detector.min_length, sense |-> sense,
               trace_scores |-> trace_scores,
               result |-> test_strings(HarnessContext(trace_scores, sense),
                                       id_list)]
  /\ UNCHANGED <<string_list, n, readjust, built, detector, call, scoring,
                 pickle_file, loaded>>

\* test_labeled(input_file, detector, min_length, trace_scores)
TestLabeled ==
  /\ run.harness = "none"
  /\ \E lines \in LabeledFiles, trace_scores \in BOOLEAN :
       run' = [harness |-> "test_labeled", input |-> lines,
               min_length |-> detector.min_length, sense |-> "valid",
               trace_scores |-> trace_scores,
               result |-> test_labeled(HarnessContext(trace_scores, "valid"),
                                       lines)]
  /\ UNCHANGED <<string_list, n, readjust, built, detector, call, scoring,
                 pickle_file, loaded>>

NextHarness ==
  \/ TestStrings
  \/ TestLabeled

SpecHarness == InitHarness /\ [][NextHarness]_vars

\* ================================================================== claims
Ok == built.status = "ok"
Table == built.table
Called == call.made

LoweredAt(i) == lower(string_list[i])

\* number of places of string s where g starts
OccurrencesIn(s, g) ==
  Cardinality({i \in 1..(Len(s) - Len(g) + 1) : SubSeq(s, i, i + Len(g) - 1) = g})

\* distinct (lower-cased) corpus strings containing g
StringsContaining(g) ==
  {LoweredAt(i) : i \in {k \in DOMAIN string_list : OccurrencesIn(LoweredAt(k), g) > 0}}

\* occurrences of g over the whole corpus
TotalOccurrences(g) ==
  Cardinality(UNION {{<<i, j>> : j \in {k \in 1..(Len(LoweredAt(i)) - Len(g) + 1) :
                                         SubSeq(LoweredAt(i), k, k + Len(g) - 1) = g}} :
                     i \in DOMAIN string_list})

\* all strings of length k over the letters of the table alphabet
RECURSIVE LetterStrings(_)
LetterStrings(k) ==
  IF k = 0 THEN {""} ELSE {l \o g : l \in all_letters, g \in LetterStrings(k - 1)}

HasNonLetter(g) == \E i \in 1..Len(g) : SubSeq(g, i, i) \notin AsciiLetters

SeenKeys == {g \in DOMAIN Table : Table[g].string_frequency > 0}
UnseenKeys == {g \in DOMAIN Table : Table[g].string_frequency = 0}

\* C1 (as stated): in the table returned for a window length n >= 1, string_frequency(g) is the number of
\* distinct corpus strings containing g and total_frequency(g) the number of
\* occurrences of g over the corpus, so string_frequency(g) = 0 only for
\* n-grams that occur in no corpus string.
C1_FrequenciesAreCounts ==
  (Ok /\ n >= 1) => \A g \in DOMAIN Table :
          /\ Table[g].string_frequency = Cardinality(StringsContaining(g))
          /\ Table[g].total_frequency = TotalOccurrences(g)

\* C2 (as stated): with re-adjustment, every n-gram with string_frequency 0
\* has idf = ceiling of the maximum idf over the n-grams with
\* string_frequency > 0 only.
C2_CeilOfSeenMaxOnly ==
  (Ok /\ readjust /\ SeenKeys # {}) =>
     \A g \in UnseenKeys :
        Table[g].idf = ceil(SetMax({Table[h].idf : h \in SeenKeys}))

\* C2 (amended): with re-adjustment, every n-gram with string_frequency 0 has
\* idf = ceiling of the maximum taken over 0 (the initial idf of the unseen
\* entries) and the idf of the n-grams with string_frequency > 0.
C2_CeilOfMaxWithZero ==
  (Ok /\ readjust) =>
     \A g \in UnseenKeys :
        Table[g].idf = ceil(SetMax({0} \cup {Table[h].idf : h \in SeenKeys}))

\* a table where the ceiling matters: unseen entries next to a seen entry
\* whose idf is positive and not an integer
C2_Witness ==
  /\ Ok /\ readjust
  /\ UnseenKeys # {}
  /\ \E h \in SeenKeys : Table[h].idf > 0 /\ Table[h].idf % 1000 # 0

\* C3 (as stated): the key set of the returned table is exactly the set of
\* the strings of length n over the alphabet.
C3_KeysExactlyAllNgrams ==
  Ok => DOMAIN Table = LetterStrings(n)

\* C3 (amended): the key set contains every string of length n over the
\* alphabet, and every other key is an n-gram of a lower-cased corpus string
\* that contains a character outside a-z.
C3_KeysAllNgramsPlusCorpusNonLetters ==
  Ok => /\ LetterStrings(n) \subseteq DOMAIN Table
        /\ \A g \in (DOMAIN Table) \ LetterStrings(n) :
              /\ Len(g) = n
              /\ HasNonLetter(g)
              /\ StringsContaining(g) # {}

C3_Witness ==
  /\ Ok /\ n = 2
  /\ "a1" \in DOMAIN Table
  /\ LetterStrings(2) \subseteq DOMAIN Table

\* C4: with re-adjustment, every n-gram never observed in training carries
\* the highest idf of the table.
C4_UnseenHaveHighestIdf ==
  (Ok /\ readjust) =>
     \A g \in DOMAIN Table :
        StringsContaining(g) = {} =>
           \A h \in DOMAIN Table : Table[g].idf >= Table[h].idf

C4_Witness ==
  /\ Ok /\ readjust
  /\ \E g \in DOMAIN Table, h \in DOMAIN Table :
        /\ StringsContaining(g) = {}
        /\ StringsContaining(h) # {}
        /\ Table[h].idf > 0
        /\ Table[g].idf > Table[h].idf

\* C5 (as stated): ngram_values fails whenever the corpus is empty or n < 1.
C5_FailsOnEmptyOrNBelowOne ==
  (built.status # "none" /\ (string_list = <<>> \/ n < 1)) => ~Ok

\* C5 (amended): ngram_values fails whenever the corpus is empty or n < 0;
\* for n = 0 and a non-empty corpus it returns a table whose only key is the
\* empty string.
C5_FailsOnEmptyOrNegativeN ==
  built.status # "none" =>
     /\ (string_list = <<>> \/ n < 0) => built.status \in {"ValueError", "RecursionError"}
     /\ (string_list # <<>> /\ n = 0) => (Ok /\ DOMAIN Table = {""})

C5_Witness ==
  /\ Ok /\ n = 0 /\ string_list # <<>>
  /\ Table[""].total_frequency > Table[""].string_frequency

\* C6 (as stated): the string handed to the length check and to the scorer
\* contains only characters a-z.
C6_NormalizedOnlyLetters ==
  Called => \A i \in 1..Len(call.out.string) :
               SubSeq(call.out.string, i, i) \in AsciiLetters

C8_SixOrFewerRejected ==
  (Called /\ detector.min_length = default_min_length
          /\ Len(call.out.string) <= 6) => call.out.kind = "TooShort"

\* C9: an input that passes the length floor and is scored is classified
\* true exactly when score > min_score, so score = min_score gives false.
C9_StrictThreshold ==
  (Called /\ call.out.kind = "return") =>
     /\ call.out.value =
          (call.out.score.num * detector.min_score.den
             > detector.min_score.num * call.out.score.den)
     /\ (call.out.score.num * detector.min_score.den
             = detector.min_score.num * call.out.score.den) => ~call.out.value

C9_Witness ==
  /\ Called /\ call.out.kind = "return" /\ n >= 1
  /\ call.out.score.num * detector.min_score.den
       = detector.min_score.num * call.out.score.den
  /\ ~call.out.value

\* C10: for the same table and parameters the closure built with trace=True
\* and the one built with trace=False give, for every input and every show,
\* the same verdict or the same failure; the call made agrees with both.
C10_TraceNeverAltersOutcome ==
  detector.made =>
     /\ ~Called =>
          \A raw \in RawInputs, show \in BOOLEAN :
             LET t == nonsense_detector_traced(Table, detector, raw, show)
                 p == nonsense_detector_plain(Table, detector, raw, show)
             IN  t.kind = p.kind /\ t.value = p.value
     /\ Called =>
          LET t == nonsense_detector_traced(Table, detector, call.raw, call.show)
              p == nonsense_detector_plain(Table, detector, call.raw, call.show)
          IN  /\ call.out.kind = p.kind /\ call.out.value = p.value
              /\ call.out.kind = t.kind /\ call.out.value = t.value

C10_Witness ==
  /\ Called /\ detector.trace /\ ~call.show /\ n >= 1
  /\ call.out.kind = "return" /\ call.out.value

\* the table ngram_values returned for the corpus of this run
TableAsBuilt == ngram_values(string_list, n, readjust).table

\* C11: no call of a detector or of a score function changes the weight table
\* or a captured parameter: after every sequence of calls, failing ones
\* included, the table is the one ngram_values returned, a detector keeps its
\* parameters, and every call gives the outcome a call on the table as built
\* gives, whatever calls came before.
C11_CallsLeaveTableAndParameters ==
  /\ [](Ok =>
         LET as_built == TableAsBuilt
         IN  /\ DOMAIN Table = DOMAIN as_built
             /\ Table = as_built
             /\ Called =>
                  call.out = IF detector.trace
                             THEN nonsense_detector_traced(as_built, detector,
                                                           call.raw, call.show)
                             ELSE nonsense_detector_plain(as_built, detector,
                                                          call.raw, call.show)
             /\ scoring.made =>
                  scoring.out = score_function(as_built, scoring.len_threshold,
                                               scoring.len_penalty_exp,
                                               scoring.rep_penalty_exp,
                                               scoring.string))
  /\ [][detector.made => detector' = detector]_vars

C11_Witness ==
  /\ Called /\ n >= 1
  /\ call.out.kind = "KeyError"
  /\ Table = TableAsBuilt

\* the strings ngrams(string, n) is applied to in this run: the lowered corpus
\* strings, the argument of a score function, the string a detector scored
Windowed ==
  {LoweredAt(i) : i \in DOMAIN string_list}
    \cup (IF scoring.made THEN {scoring.string} ELSE {})
    \cup (IF Called /\ call.out.scored THEN {call.out.string} ELSE {})

\* C12: for 1 <= n <= len(s), ngrams(s, n) has exactly len(s) - n + 1 items
\* and its i-th item (from 0) is the substring of length n that starts at
\* position i; for n > len(s) it is the empty sequence.
C12_NgramsAreTheWindows ==
  n >= 1 =>
    \A s \in Windowed :
       LET items == ngrams(s, n)
       IN  /\ n <= Len(s) =>
                /\ Len(items) = Len(s) - n + 1
                /\ \A i \in 0..(Len(s) - n) :
                      items[i + 1] = SubSeq(s, i + 1, i + n)
           /\ n > Len(s) => Len(items) = 0 /\ DOMAIN items = {}

C12_Witness ==
  /\ n = 2
  /\ scoring.made /\ scoring.string = "a"
  /\ \E i \in DOMAIN string_list : Len(string_list[i]) = 4

\* word repeated k times
RECURSIVE Repeated(_, _)
Repeated(word, k) == IF k <= 0 THEN "" ELSE word \o Repeated(word, k - 1)

\* the n-grams of string whose count in string is maximal
MaxCountNgrams(string, k) ==
  LET items == ngrams(string, k)
      count(g) == Cardinality({j \in DOMAIN items : items[j] = g})
  IN  {items[j] : j \in {i \in DOMAIN items :
                           \A h \in DOMAIN items :
                              count(items[h]) <= count(items[i])}}

\* the score function of the call made, applied to another string
ScoreOf(string) ==
  score_function(Table, scoring.len_threshold, scoring.len_penalty_exp,
                 scoring.rep_penalty_exp, string)

\* a < b for two scores of strings with n-grams under one table: both have
\* the denominator 2*max_freq*1000*(1 + num_ngrams)
ScoreLess(a, b) == a.num * (1 + b.num_ngrams) < b.num * (1 + a.num_ngrams)

ScoredWithNgrams ==
  /\ Ok /\ n >= 1
  /\ scoring.made /\ scoring.out.kind = "score"
  /\ scoring.out.num_ngrams >= 1

NoNegativeIdf == \A g \in DOMAIN Table : Table[g].idf >= 0

\* C13 as stated: appending repeats of an n-gram whose count in the string is
\* maximal never decreases the score of the string.
C13_RepeatsNeverLowerScore ==
  ScoredWithNgrams =>
    \A g \in MaxCountNgrams(scoring.string, n), k \in 1..MaxRepeat :
       LET more == ScoreOf(scoring.string \o Repeated(g, k))
       IN  more.kind = "score" => ~ScoreLess(more, scoring.out)

\* C13 amended: under a table without negative idf values, appending repeats
\* of an n-gram whose count in the string is maximal never decreases the sum
\* ngram_score_sum + length_penalty, which is the score times 1 + num_ngrams.
C13_RepeatsNeverLowerSum ==
  ScoredWithNgrams /\ NoNegativeIdf =>
    \A g \in MaxCountNgrams(scoring.string, n), k \in 1..MaxRepeat :
       LET more == ScoreOf(scoring.string \o Repeated(g, k))
       IN  more.kind = "score" /\ more.num >= scoring.out.num

C13_Witness ==
  /\ ScoredWithNgrams /\ NoNegativeIdf
  /\ scoring.string = "abab" /\ n = 2
  /\ \E g \in DOMAIN Table : Table[g].idf > 0 /\ Table[g].idf < 1000
  /\ ScoreLess(scoring.out, ScoreOf("ababab"))

AllPositiveIdf == \A g \in DOMAIN Table : Table[g].idf > 0

\* C14 as stated: a word of at least n letters repeated k >= 2 times scores
\* strictly higher than the word alone, whatever the idf values of its
\* n-grams.
C14_RepeatedWordScoresHigher ==
  ScoredWithNgrams =>
    \A k \in 2..MaxRepeat :
       LET repeated == ScoreOf(Repeated(scoring.string, k))
       IN  repeated.kind = "score" /\ ScoreLess(scoring.out, repeated)

\* C14 amended: under a table whose idf values are all positive, a word of at
\* least n letters repeated k >= 2 times has a strictly higher sum
\* ngram_score_sum + length_penalty (the score times 1 + num_ngrams) than the
\* word alone.
C14_RepeatedWordHasHigherSum ==
  ScoredWithNgrams /\ AllPositiveIdf =>
    \A k \in 2..MaxRepeat :
       LET repeated == ScoreOf(Repeated(scoring.string, k))
       IN  repeated.kind = "score" /\ repeated.num > scoring.out.num

C14_Witness ==
  /\ ScoredWithNgrams /\ AllPositiveIdf
  /\ scoring.string = "ba" /\ n = 2
  /\ Table["ba"].idf < 1000
  /\ ScoreOf("baba").num > scoring.out.num

C16_ScorerDefinedOnLetterStrings ==
  Ok /\ n >= 1 /\ Len(string_list) >= 1 =>
    /\ highest_total_frequency(Table) > 0
    /\ scoring.made => scoring.out.kind = "score"

\* C17: in the table returned, every n-gram with string_frequency > 0 has
\* idf = log2(N / (1 + string_frequency)), N being the number of corpus items
\* with duplicates counted and string_frequency the number of distinct corpus
\* strings holding the n-gram; total_frequency and the largest count play no
\* part.
C17_SeenIdfFromStringFrequency ==
  Ok =>
    \A g \in SeenKeys :
       /\ Table[g].string_frequency = Cardinality(StringsContaining(g))
       /\ Table[g].idf = Log2Milli(Len(string_list))
                           - Log2Milli(1 + Table[g].string_frequency)

C17_Witness ==
  /\ Ok /\ n >= 1
  /\ \E i, j \in DOMAIN string_list : i # j /\ string_list[i] = string_list[j]
  /\ \E g \in SeenKeys :
        /\ Table[g].total_frequency > Table[g].string_frequency
        /\ Table[g].idf > 0
        /\ \E h \in SeenKeys : Table[h].total_frequency # Table[g].total_frequency

\* a score function call that returned a score
Scored == Ok /\ n >= 1 /\ scoring.made /\ scoring.out.kind = "score"

\* the score of the string scored when the length penalty is left out: the
\* same score function with the threshold at the number of n-grams of the
\* string
SumOnly ==
  score_function(Table, scoring.out.num_ngrams, 1, scoring.rep_penalty_exp,
                 scoring.string)

LengthPenaltyAsClaimed ==
  LET m == scoring.out.num_ngrams
      longer == ScoreOf(scoring.string \o "a")
  IN  /\ m <= scoring.len_threshold =>
           /\ scoring.out.length_penalty = 0
           /\ scoring.out.num = SumOnly.num
           /\ scoring.out.den = SumOnly.den
      /\ m > scoring.len_threshold /\ scoring.len_penalty_exp > 0 =>
           /\ scoring.out.length_penalty > 0
           /\ longer.kind = "score" =>
                /\ longer.num_ngrams >= m
                /\ longer.length_penalty >= scoring.out.length_penalty

\* C18 as stated: the length penalty is zero for a string of at most
\* len_threshold n-grams, whatever the exponent, and the score is then
\* ngram_score_sum / (1 + m); above the threshold and for a positive exponent
\* it is positive and does not decrease with m.
C18_LengthPenaltyZeroUpToThreshold ==
  Scored => LengthPenaltyAsClaimed

\* C18 amended: the same for a positive len_penalty_exp only.
C18_LengthPenaltyForPositiveExponent ==
  Scored /\ scoring.len_penalty_exp > 0 => LengthPenaltyAsClaimed

C18_Witness ==
  /\ Scored /\ scoring.len_penalty_exp = 2
  /\ scoring.out.num_ngrams > scoring.len_threshold
  /\ scoring.len_threshold > 0
  /\ scoring.out.length_penalty > 1

\* C19: for a string shorter than the window length of the table, which has
\* no n-gram, the score function raises nothing and returns a score; the
\* score is 0 when len_threshold >= 0 and len_penalty_exp > 0.
C19_ShorterThanWindowScoresZero ==
  Ok /\ n >= 1 /\ scoring.made /\ Len(scoring.string) < n =>
    /\ scoring.out.kind = "score"
    /\ scoring.out.num_ngrams = 0
    /\ scoring.out.den = 1
    /\ scoring.len_threshold >= 0 /\ scoring.len_penalty_exp > 0 =>
         scoring.out.num = 0

C19_Witness ==
  /\ Ok /\ n = 2 /\ scoring.made /\ scoring.string = "a"
  /\ highest_total_frequency(Table) = 0
  /\ scoring.len_threshold >= 0 /\ scoring.len_penalty_exp > 0
  /\ scoring.out.kind = "score" /\ scoring.out.num = 0

\* C20: in test_strings and in test_labeled every input is counted once, as
\* skipped or as tested (count + skipped = number of inputs; in test_strings
\* failures + successes = count), and nonsense_tester is called only on
\* inputs whose normalized length is at least min_length, so that a detector
\* with the same min_length never raises its too-short error inside a run.
C20_HarnessCountsEveryInputOnce ==
  run.harness # "none" =>
    /\ run.result.exception # "TooShort"
    /\ \A i \in DOMAIN run.result.tested :
          Len(Normalized(run.result.tested[i])) >= run.min_length
    /\ run.result.status = "returned" =>
         /\ run.result.count + run.result.skipped = Len(run.input)
         /\ run.harness = "test_strings" =>
              run.result.failures + run.result.successes = run.result.count

====
